---- MODULE Spec2Model ----
(***************************************************************************)
(* Broker client: health, status and systemcheck endpoints                 *)
(* (lib/client/index.js).                                                  *)
(*                                                                         *)
(* JavaScript objects are functions from key strings to values; a key that *)
(* is not in the DOMAIN is an absent (undefined) property.  Texts are      *)
(* sequences of string tokens, so that "the text contains the secret" is a *)
(* question about sub-sequences; the undefined text is the empty sequence. *)
(*                                                                         *)
(* The handlers share no mutable state (only the read-only configuration   *)
(* and the control channel's readyState), so one inbound request is        *)
(* followed at a time: route/pc/... describe the request being handled and *)
(* keep its response until the next request arrives.                       *)
(***************************************************************************)
EXTENDS Integers, Sequences, FiniteSets, TLC

VARIABLES
  config,             \* process configuration (argument of module.exports)
  readyState,         \* io.readyState, owned by the control channel
  listening,          \* the local webserver accepts requests (until close)
  route,              \* path of the request being handled
  pc,                 \* "idle" | "awaiting" (probe in flight) | "done"
  arrivedState,       \* readyState when the request arrived (history)
  healthData,         \* const healthData / data of the handler
  systemCheckConfig,  \* const systemCheckConfig of the handler
  outbound,           \* options object of the probe handed to asyncRequest
  settled,            \* what the probe settled with: a response or an error
  outcome,            \* how makeInternalValidationRequest completed
  res,                \* what the handler sent: status code and body
  logged              \* logger.error calls made while handling the request

vars == <<config, readyState, listening, route, pc, arrivedState, healthData,
          systemCheckConfig, outbound, settled, outcome, res, logged>>

----------------------------------------------------------------------------
(* Bounds *)

MaxCredLen == 3       \* longest basic-auth credential string, in characters

----------------------------------------------------------------------------
(* JavaScript objects *)

EmptyObj == [k \in {} |-> TRUE]

Has(o, k) == k \in DOMAIN o

Get(o, k, dflt) == IF k \in DOMAIN o THEN o[k] ELSE dflt

\* Object.assign({}, a, b)
Assign(a, b) ==
  [k \in (DOMAIN a) \cup (DOMAIN b) |-> IF k \in DOMAIN b THEN b[k] ELSE a[k]]

Prop(k, v) == [x \in {k} |-> v]

UndefinedText == << >>

\* text t has s as a contiguous, non-empty part
Contains(t, s) ==
  /\ Len(s) > 0
  /\ \E i \in 1..Len(t) :
       /\ i + Len(s) - 1 <= Len(t)
       /\ \A j \in 1..Len(s) : t[i + j - 1] = s[j]

----------------------------------------------------------------------------
(* Collaborators *)

OPEN == "OPEN"

ReadyStates == {"CONNECTING", "OPEN", "CLOSING", "CLOSED"}

version == <<"1.0.0">>

BrokerServerUrl == <<"https://broker.snyk.io/">>

UrlSecret == "s3cr3t-t0ken"

\* logger.sanitise: every secret token of the text is replaced by a placeholder
sanitise(raw) ==
  [i \in 1..Len(raw) |-> IF raw[i] = UrlSecret THEN "${TOKEN}" ELSE raw[i]]

----------------------------------------------------------------------------
(* Configuration the client can be started with *)

Urls == { <<"https://scm.local/api">>,
          <<"https://", UrlSecret, "@scm.local/api">> }

AuthHeaders == { <<"token ", "hdr-s3cr3t">> }

CredChars == {"u", ":"}

RECURSIVE TextsUpTo(_)
TextsUpTo(n) ==
  IF n = 0 THEN { << >> }
  ELSE LET shorter == TextsUpTo(n - 1)
       IN shorter \cup { Append(t, c) : t \in {s \in shorter : Len(s) = n - 1},
                                       c \in CredChars }

BasicAuths == { t \in TextsUpTo(MaxCredLen) : Len(t) > 0 }

Opt(k, V) == {EmptyObj} \cup { Prop(k, v) : v \in V }

Configs ==
  { Assign(Assign(Assign(Assign(Assign(u, m), t), a), b), c) :
      u \in Opt("brokerClientValidationUrl", Urls),
      m \in Opt("brokerClientValidationMethod", {"HEAD"}),
      t \in Opt("brokerClientValidationTimeoutMs", {1000}),
      a \in Opt("brokerClientValidationAuthorizationHeader", AuthHeaders),
      b \in Opt("brokerClientValidationBasicAuth", BasicAuths),
      c \in Opt("caCert", {<<"-----BEGIN CERTIFICATE-----">>}) }

----------------------------------------------------------------------------
(* getHealthData *)

\* slip: every state but CLOSED counts as an open connection
getHealthData_notClosed(state) ==
  LET isConnOpen == (state # "CLOSED")
  IN  [ ok |-> isConnOpen,
        websocketConnectionOpen |-> isConnOpen,
        brokerServerUrl |-> BrokerServerUrl,
        version |-> version ]

getHealthData(state) ==
  LET isConnOpen == (state = OPEN)
  IN  [ ok |-> isConnOpen,
        websocketConnectionOpen |-> isConnOpen,
        brokerServerUrl |-> BrokerServerUrl,
        version |-> version ]

\* const status = data.isConnOpen ? 200 : 500
healthcheckStatus(data) ==
  IF Has(data, "isConnOpen") /\ data["isConnOpen"] = TRUE THEN 200 ELSE 500

\* slip: the raw URL is put in the displayed configuration
getSystemCheckConfiguration_raw(cfg) ==
  [ brokerClientValidationUrl |->
      Get(cfg, "brokerClientValidationUrl", UndefinedText),
    brokerClientValidationMethod |->
      Get(cfg, "brokerClientValidationMethod", "GET"),
    brokerClientValidationTimeoutMs |->
      Get(cfg, "brokerClientValidationTimeoutMs", 5000) ]

(* getSystemCheckConfiguration *)
getSystemCheckConfiguration(cfg) ==
  [ brokerClientValidationUrl |->
      sanitise(Get(cfg, "brokerClientValidationUrl", UndefinedText)),
    brokerClientValidationMethod |->
      Get(cfg, "brokerClientValidationMethod", "GET"),
    brokerClientValidationTimeoutMs |->
      Get(cfg, "brokerClientValidationTimeoutMs", 5000) ]

----------------------------------------------------------------------------
(* new Buffer(str).toString('base64') *)

Ord(c) == CASE c = "u" -> 117 [] c = ":" -> 58

\* new Buffer(str): the bytes of the (ASCII) string
Bytes(str) == [i \in 1..Len(str) |-> Ord(str[i])]

Base64Alphabet ==
  << "A","B","C","D","E","F","G","H","I","J","K","L","M","N","O","P",
     "Q","R","S","T","U","V","W","X","Y","Z","a","b","c","d","e","f",
     "g","h","i","j","k","l","m","n","o","p","q","r","s","t","u","v",
     "w","x","y","z","0","1","2","3","4","5","6","7","8","9","+","/" >>

B64(n) == Base64Alphabet[n + 1]

RECURSIVE Base64(_)
Base64(b) ==
  IF Len(b) = 0 THEN << >>
  ELSE IF Len(b) = 1 THEN
    << B64(b[1] \div 4), B64((b[1] % 4) * 16), "=", "=" >>
  ELSE IF Len(b) = 2 THEN
    << B64(b[1] \div 4), B64((b[1] % 4) * 16 + b[2] \div 16),
       B64((b[2] % 16) * 4), "=" >>
  ELSE
    << B64(b[1] \div 4), B64((b[1] % 4) * 16 + b[2] \div 16),
       B64((b[2] % 16) * 4 + b[3] \div 64), B64(b[3] % 64) >>
    \o Base64(SubSeq(b, 4, Len(b)))

----------------------------------------------------------------------------
(* makeInternalValidationRequest *)

\* a configuration value is set and is not the empty string
Truthy(o, k) == Has(o, k) /\ o[k] # UndefinedText

userAgent == <<"Snyk Broker client ">> \o version

\* slip: basic-auth is looked at before the explicit header
validationRequestHeaders_basicFirst(cfg) ==
  LET base == Prop("user-agent", userAgent)
  IN  IF Truthy(cfg, "brokerClientValidationBasicAuth")
      THEN Assign(base, Prop("authorization",
                    <<"Basic ">> \o
                    Base64(Bytes(cfg["brokerClientValidationBasicAuth"]))))
      ELSE IF Truthy(cfg, "brokerClientValidationAuthorizationHeader")
      THEN Assign(base, Prop("authorization",
                    cfg["brokerClientValidationAuthorizationHeader"]))
      ELSE base

validationRequestHeaders(cfg) ==
  LET base == Prop("user-agent", userAgent)
  IN  IF Truthy(cfg, "brokerClientValidationAuthorizationHeader")
      THEN Assign(base, Prop("authorization",
                    cfg["brokerClientValidationAuthorizationHeader"]))
      ELSE IF Truthy(cfg, "brokerClientValidationBasicAuth")
      THEN Assign(base, Prop("authorization",
                    <<"Basic ">> \o
                    Base64(Bytes(cfg["brokerClientValidationBasicAuth"]))))
      ELSE base

\* the options object of the asyncRequest call
requestOptions(cfg, scc) ==
  [ url     |-> scc["brokerClientValidationUrl"],
    headers |-> validationRequestHeaders(cfg),
    method  |-> scc["brokerClientValidationMethod"],
    timeout |-> scc["brokerClientValidationTimeoutMs"],
    json    |-> TRUE,
    agentOptions |-> IF Has(cfg, "caCert") THEN Prop("ca", cfg["caCert"])
                     ELSE EmptyObj ]

RECURSIVE LeadingDigit(_)
LeadingDigit(n) == IF n < 10 THEN n ELSE LeadingDigit(n \div 10)

\* slip: every status code below 400 counts as good
goodStatusCode_below400(code) == code < 400

\* /^2/.test(responseStatusCode)
goodStatusCode(code) == LeadingDigit(code) = 2

errorMessage(code) ==
  IF code = 401 \/ code = 403
  THEN <<"Failed due to invalid credentials">>
  ELSE <<"Status code is not 2xx">>

\* the try block once the request has resolved with a response
tryBlock(response) ==
  LET data == Prop("brokerClientValidationUrlStatusCode", response["statusCode"])
  IN  IF ~goodStatusCode(response["statusCode"])
      THEN [ threw  |-> TRUE,
             error  |-> [message |-> errorMessage(response["statusCode"])],
             logged |-> { [ msg  |-> <<"Systemcheck failed">>,
                            data |-> data,
                            body |-> response["body"] ] } ]
      ELSE [ threw  |-> FALSE,
             value  |-> Assign(data, Prop("ok", TRUE)),
             logged |-> {} ]

\* slip: the catch block rethrows
catchBlock_rethrow(error) ==
  [ threw  |-> TRUE,
    error  |-> error,
    logged |-> { [ msg |-> <<"Validation request failed">>, error |-> error ] } ]

\* slip: the catch block reports one generic message
catchBlock_generic(error) ==
  [ threw  |-> FALSE,
    value  |-> [ok |-> FALSE, error |-> <<"Validation request failed">>],
    logged |-> { [ msg |-> <<"Validation request failed">>, error |-> error ] } ]

\* the catch block
catchBlock(error) ==
  [ threw  |-> FALSE,
    value  |-> [ok |-> FALSE, error |-> error["message"]],
    logged |-> { [ msg |-> <<"Validation request failed">>, error |-> error ] } ]

\* s: [kind |-> "response", response |-> r] or [kind |-> "error", error |-> e]
makeInternalValidationRequest(s) ==
  IF s["kind"] = "error"
  THEN catchBlock(s["error"])
  ELSE LET t == tryBlock(s["response"])
       IN  IF t["threw"]
           THEN LET c == catchBlock(t["error"])
                IN  [c EXCEPT !["logged"] = t["logged"] \cup c["logged"]]
           ELSE t

----------------------------------------------------------------------------
(* What the probed service and the network can answer *)

StatusCodes == {100, 199, 200, 204, 299, 300, 400, 401, 403, 404, 500, 599}

Bodies == { UndefinedText, <<"Bad credentials">> }

Responses == [statusCode : StatusCodes, body : Bodies]

\* every three-digit status code an HTTP response can carry
AllStatusCodes == 100..999

AllResponses == [statusCode : AllStatusCodes, body : Bodies]

TransportErrors(options) ==
  IF options["url"] = UndefinedText
  THEN { [message |-> <<"options.uri is a required argument">>] }
  ELSE { [message |-> <<"connect ECONNREFUSED 10.0.0.1:443">>, code |-> "ECONNREFUSED"],
         [message |-> <<"ESOCKETTIMEDOUT">>, code |-> "ESOCKETTIMEDOUT"],
         [message |-> <<"Invalid URI ">> \o options["url"]] }

----------------------------------------------------------------------------
(* The endpoints' responses *)

\* res.json: JSON.stringify leaves out properties whose value is undefined
Json(o) ==
  [k \in {x \in DOMAIN o :
            ~(x = "brokerClientValidationUrl" /\ o[x] = UndefinedText)} |-> o[k]]

\* slip: the page is rendered without the error block
statusPage_noErrorBlock(health, scc, validationResponse) ==
  LET combinedConfig ==
        Assign(scc, [ brokerServerUrl |-> health["brokerServerUrl"],
                      version |-> health["version"] ])
  IN  [ registry |-> IF health["ok"] = TRUE THEN "OK" ELSE "NOT OK",
        scm      |-> IF Has(validationResponse, "ok")
                        /\ validationResponse["ok"] = TRUE
                     THEN "OK" ELSE "NOT OK",
        config   |-> combinedConfig ]

\* the HTML of GET /status
statusPage(health, scc, validationResponse) ==
  LET combinedConfig ==
        Assign(scc, [ brokerServerUrl |-> health["brokerServerUrl"],
                      version |-> health["version"] ])
      page ==
        [ registry |-> IF health["ok"] = TRUE THEN "OK" ELSE "NOT OK",
          scm      |-> IF Has(validationResponse, "ok")
                          /\ validationResponse["ok"] = TRUE
                       THEN "OK" ELSE "NOT OK",
          config   |-> combinedConfig ]
  IN  IF Truthy(validationResponse, "error")
      THEN Assign(page, Prop("errors", validationResponse["error"]))
      ELSE page

\* GET /status after the await
statusResponse(health, scc, o) ==
  IF o["threw"]
  THEN EmptyObj
  ELSE [status |-> 200, body |-> statusPage(health, scc, o["value"])]

\* GET /systemcheck after the await
systemcheckResponse(scc, o) ==
  IF o["threw"]
  THEN [ status |-> 500,
         body   |-> [ok |-> FALSE, error |-> o["error"],
                     config |-> Json(scc)] ]
  ELSE [ status |-> 200, body |-> Json(Assign(scc, o["value"])) ]

----------------------------------------------------------------------------
Init ==
  /\ config \in Configs
  /\ readyState = "CONNECTING"
  /\ listening = TRUE
  /\ route = "none"
  /\ pc = "idle"
  /\ arrivedState = "CONNECTING"
  /\ healthData = EmptyObj
  /\ systemCheckConfig = EmptyObj
  /\ outbound = EmptyObj
  /\ settled = EmptyObj
  /\ outcome = EmptyObj
  /\ res = EmptyObj
  /\ logged = {}

\* the control channel moves to another readiness state
ReadyStateChange ==
  /\ listening
  /\ \E s \in ReadyStates \ {readyState} : readyState' = s
  /\ UNCHANGED <<config, listening, route, pc, arrivedState, healthData,
                 systemCheckConfig, outbound, settled, outcome, res, logged>>

\* GET /healthcheck
Healthcheck ==
  /\ listening
  /\ pc # "awaiting"
  /\ LET data == getHealthData(readyState)
         status == healthcheckStatus(data)
     IN  /\ healthData' = data
         /\ res' = [status |-> status, body |-> data]
  /\ route' = "/healthcheck"
  /\ pc' = "done"
  /\ arrivedState' = readyState
  /\ systemCheckConfig' = EmptyObj
  /\ outbound' = EmptyObj
  /\ settled' = EmptyObj
  /\ outcome' = EmptyObj
  /\ logged' = {}
  /\ UNCHANGED <<config, readyState, listening>>

\* GET /status up to the await
StatusRequest ==
  /\ listening
  /\ pc # "awaiting"
  /\ LET scc == getSystemCheckConfiguration(config)
     IN  /\ systemCheckConfig' = scc
         /\ outbound' = requestOptions(config, scc)
  /\ healthData' = getHealthData(readyState)
  /\ route' = "/status"
  /\ pc' = "awaiting"
  /\ settled' = EmptyObj
  /\ outcome' = EmptyObj
  /\ arrivedState' = readyState
  /\ res' = EmptyObj
  /\ logged' = {}
  /\ UNCHANGED <<config, readyState, listening>>

\* GET /systemcheck up to the await
SystemcheckRequest ==
  /\ listening
  /\ pc # "awaiting"
  /\ LET scc == getSystemCheckConfiguration(config)
     IN  /\ systemCheckConfig' = scc
         /\ outbound' = requestOptions(config, scc)
  /\ healthData' = EmptyObj
  /\ route' = "/systemcheck"
  /\ pc' = "awaiting"
  /\ settled' = EmptyObj
  /\ outcome' = EmptyObj
  /\ arrivedState' = readyState
  /\ res' = EmptyObj
  /\ logged' = {}
  /\ UNCHANGED <<config, readyState, listening>>

\* the awaiting handler resumes with the settled probe
Resume(s) ==
  LET o == makeInternalValidationRequest(s)
  IN  /\ settled' = s
      /\ outcome' = [k \in DOMAIN o \ {"logged"} |-> o[k]]
      /\ logged' = o["logged"]
      /\ res' = IF route = "/status"
                THEN statusResponse(healthData, systemCheckConfig, o)
                ELSE systemcheckResponse(systemCheckConfig, o)
      /\ pc' = "done"
      /\ UNCHANGED <<config, readyState, listening, route, arrivedState,
                     healthData, systemCheckConfig, outbound>>

\* the probed service answers
ProbeResponds ==
  /\ pc = "awaiting"
  /\ outbound["url"] # UndefinedText
  /\ \E r \in Responses : Resume([kind |-> "response", response |-> r])

\* the probe fails without a response (refused, timeout, invalid options)
ProbeFails ==
  /\ pc = "awaiting"
  /\ \E e \in TransportErrors(outbound) : Resume([kind |-> "error", error |-> e])

\* close(done): server.close() and io.destroy()
Close ==
  /\ listening
  /\ listening' = FALSE
  /\ readyState' = "CLOSED"
  /\ UNCHANGED <<config, route, pc, arrivedState, healthData,
                 systemCheckConfig, outbound, settled, outcome, res, logged>>

Next ==
  \/ ReadyStateChange
  \/ Healthcheck
  \/ StatusRequest
  \/ SystemcheckRequest
  \/ ProbeResponds
  \/ ProbeFails
  \/ Close

Spec == Init /\ [][Next]_vars

(* The probe alone, over every status code: the client is configured with a *)
(* target URL only and the probed service may answer with any code.         *)
InitCodes ==
  /\ Init
  /\ DOMAIN config = {"brokerClientValidationUrl"}

\* the probed service answers, with any status code
ProbeRespondsAnyCode ==
  /\ pc = "awaiting"
  /\ outbound["url"] # UndefinedText
  /\ \E r \in AllResponses : Resume([kind |-> "response", response |-> r])

NextCodes ==
  \/ StatusRequest
  \/ SystemcheckRequest
  \/ ProbeRespondsAnyCode

SpecCodes == InitCodes /\ [][NextCodes]_vars
----------------------------------------------------------------------------
(* Properties *)

HasUrl == Has(config, "brokerClientValidationUrl")

ConfiguredUrl == Get(config, "brokerClientValidationUrl", UndefinedText)

\* a handler that runs the probe has finished
Probed == pc = "done" /\ route \in {"/status", "/systemcheck"}

GotResponse == Probed /\ settled["kind"] = "response"

GotError == Probed /\ settled["kind"] = "error"

Code == settled["response"]["statusCode"]

StatusCodeKey == "brokerClientValidationUrlStatusCode"

\* C1: GET /healthcheck answers 200 iff the channel was OPEN when the request
\* arrived, and 500 otherwise.
C1_HealthcheckStatusIffOpen ==
  (route = "/healthcheck" /\ pc = "done") =>
     res["status"] = IF arrivedState = OPEN THEN 200 ELSE 500

\* C2: in the snapshot of getHealthData, websocketConnectionOpen is true iff the
\* channel state is exactly OPEN, and ok equals websocketConnectionOpen.
C2_HealthSnapshot ==
  (DOMAIN healthData # {}) =>
     /\ healthData["websocketConnectionOpen"] = (arrivedState = OPEN)
     /\ healthData["ok"] = healthData["websocketConnectionOpen"]

C2_Witness ==
  /\ route = "/healthcheck" /\ pc = "done"
  /\ arrivedState = OPEN
  /\ healthData["websocketConnectionOpen"] = TRUE

\* C3: a response with a status code in [200,299] gives ok = true; 401 or 403
\* gives ok = false with "Failed due to invalid credentials"; every other code
\* gives ok = false with "Status code is not 2xx".
C3_Classification ==
  GotResponse =>
     /\ ~outcome["threw"]
     /\ (Code \in 200..299) => outcome["value"]["ok"] = TRUE
     /\ (Code \in {401, 403}) =>
           /\ outcome["value"]["ok"] = FALSE
           /\ outcome["value"]["error"] = <<"Failed due to invalid credentials">>
     /\ (Code \notin (200..299) \cup {401, 403}) =>
           /\ outcome["value"]["ok"] = FALSE
           /\ outcome["value"]["error"] = <<"Status code is not 2xx">>

C3_Witness ==
  /\ GotResponse
  /\ Code = 403
  /\ outcome["value"]["ok"] = FALSE
  /\ outcome["value"]["error"] = <<"Failed due to invalid credentials">>

\* C4: after a non-2xx response the outcome, and the /systemcheck body built
\* from it, carry the observed status code in brokerClientValidationUrlStatusCode
\* next to ok = false and the error message.
C4_FailureCarriesStatusCode ==
  (GotResponse /\ Code \notin 200..299) =>
     /\ Has(outcome["value"], StatusCodeKey)
     /\ outcome["value"][StatusCodeKey] = Code
     /\ outcome["value"]["ok"] = FALSE
     /\ Has(outcome["value"], "error")
     /\ (route = "/systemcheck") =>
           /\ Has(res["body"], StatusCodeKey)
           /\ res["body"][StatusCodeKey] = Code
           /\ res["body"]["ok"] = FALSE
           /\ Has(res["body"], "error")

B64Index(c) == CHOOSE i \in 0..63 : Base64Alphabet[i + 1] = c

RECURSIVE Base64Decode(_)
Base64Decode(e) ==
  IF Len(e) < 4 THEN << >>
  ELSE LET a == B64Index(e[1])
           b == B64Index(e[2])
       IN  IF e[3] = "=" THEN << a * 4 + b \div 16 >>
           ELSE IF e[4] = "="
           THEN << a * 4 + b \div 16, (b % 16) * 16 + B64Index(e[3]) \div 4 >>
           ELSE << a * 4 + b \div 16, (b % 16) * 16 + B64Index(e[3]) \div 4,
                   (B64Index(e[3]) % 4) * 64 + B64Index(e[4]) >>
                \o Base64Decode(SubSeq(e, 5, Len(e)))

AuthHeaderKey == "brokerClientValidationAuthorizationHeader"

BasicAuthKey == "brokerClientValidationBasicAuth"

\* C5: the probe's authorization header is the configured header verbatim if
\* there is one, whatever the basic-auth setting; else "Basic " and the base64
\* of the basic-auth credentials if they are configured; else there is none.
\* The user-agent header is always there.
C5_HeaderPrecedence ==
  (DOMAIN outbound # {}) =>
     LET h == outbound["headers"]
     IN  /\ Has(h, "user-agent")
         /\ h["user-agent"] = <<"Snyk Broker client ">> \o version
         /\ IF Has(config, AuthHeaderKey)
            THEN Has(h, "authorization") /\ h["authorization"] = config[AuthHeaderKey]
            ELSE IF Has(config, BasicAuthKey)
            THEN /\ Has(h, "authorization")
                 /\ Len(h["authorization"]) > 1
                 /\ h["authorization"][1] = "Basic "
                 /\ LET enc == Tail(h["authorization"])
                        cred == config[BasicAuthKey]
                    IN  /\ Len(enc) % 4 = 0
                        /\ Len(enc) = 4 * ((Len(cred) + 2) \div 3)
                        /\ Base64Decode(enc) = [i \in 1..Len(cred) |-> Ord(cred[i])]
                        /\ (cred = <<"u", ":">>) => enc = <<"d", "T", "o", "=">>
                        /\ (cred = <<"u", ":", "u">>) => enc = <<"d", "T", "p", "1">>
                        /\ (cred = <<":">>) => enc = <<"O", "g", "=", "=">>
            ELSE ~Has(h, "authorization")

C5_Witness ==
  /\ DOMAIN outbound # {}
  /\ Has(config, AuthHeaderKey)
  /\ Has(config, BasicAuthKey)
  /\ outbound["headers"]["authorization"] = config[AuthHeaderKey]

\* C6: whatever the probe settles with, makeInternalValidationRequest resolves
\* to a value and /systemcheck answers 200; a 500 is sent only when
\* makeInternalValidationRequest itself threw.
C6_SystemcheckAlways200 ==
  Probed =>
     /\ ~outcome["threw"]
     /\ Has(outcome, "value")
     /\ (route = "/systemcheck") => res["status"] = 200

C6_Witness ==
  /\ GotError
  /\ route = "/systemcheck"
  /\ outcome["value"]["ok"] = FALSE
  /\ res["status"] = 200

\* C7: the URL the probe dials is the configured URL as it is, not its
\* sanitized form.
C7_ProbeDialsRawUrl ==
  (DOMAIN outbound # {}) => outbound["url"] = ConfiguredUrl

\* C8: GET /status always answers with a page whose registry row is OK iff the
\* channel was OPEN, whose SCM row is OK iff the probe outcome has ok = true,
\* and which has an error block with the failure message iff the outcome is a
\* failure.
C8_StatusPage ==
  (route = "/status" /\ pc = "done") =>
     /\ DOMAIN res # {}
     /\ res["status"] = 200
     /\ (res["body"]["registry"] = "OK") <=> (arrivedState = OPEN)
     /\ res["body"]["registry"] \in {"OK", "NOT OK"}
     /\ res["body"]["scm"] \in {"OK", "NOT OK"}
     /\ (res["body"]["scm"] = "OK") <=> (outcome["value"]["ok"] = TRUE)
     /\ (res["body"]["scm"] = "OK") <=>
           (settled["kind"] = "response" /\ Code \in 200..299)
     /\ Has(res["body"], "errors") <=> (outcome["value"]["ok"] = FALSE)
     /\ Has(res["body"], "errors") =>
           res["body"]["errors"] = outcome["value"]["error"]

C8_Witness ==
  /\ route = "/status" /\ pc = "done"
  /\ arrivedState = "CLOSED"
  /\ settled["kind"] = "response" /\ Code = 403
  /\ res["body"]["registry"] = "NOT OK"
  /\ res["body"]["scm"] = "NOT OK"
  /\ res["body"]["errors"] = <<"Failed due to invalid credentials">>

\* C9: when the probe fails without a response, the outcome is ok = false with
\* the underlying error's message and no status code, and the /systemcheck
\* body has no brokerClientValidationUrlStatusCode key either.
C9_TransportFailure ==
  GotError =>
     /\ outcome["value"] = [ok |-> FALSE, error |-> settled["error"]["message"]]
     /\ ~Has(outcome["value"], StatusCodeKey)
     /\ (route = "/systemcheck") =>
           /\ ~Has(res["body"], StatusCodeKey)
           /\ res["body"]["ok"] = FALSE
           /\ res["body"]["error"] = settled["error"]["message"]

C9_Witness ==
  /\ GotError
  /\ route = "/systemcheck"
  /\ settled["error"]["message"] = <<"ESOCKETTIMEDOUT">>
  /\ res["body"]["error"] = <<"ESOCKETTIMEDOUT">>

\* the secret texts of the configuration
Secrets ==
  (IF Contains(ConfiguredUrl, <<UrlSecret>>) THEN { <<UrlSecret>> } ELSE {})
  \cup (IF Has(config, AuthHeaderKey)
        THEN { config[AuthHeaderKey], Tail(config[AuthHeaderKey]) } ELSE {})
  \cup (IF Has(config, BasicAuthKey) THEN { config[BasicAuthKey] } ELSE {})

TextsOf(o, keys) == { o[k] : k \in keys \cap DOMAIN o }

\* the texts of the body sent by /systemcheck or rendered by /status
ReturnedTexts ==
  IF DOMAIN res = {} THEN {}
  ELSE IF route = "/status"
  THEN TextsOf(res["body"], {"errors"})
       \cup TextsOf(res["body"]["config"],
                    {"brokerClientValidationUrl", "brokerServerUrl", "version"})
  ELSE TextsOf(res["body"], {"brokerClientValidationUrl", "error"})

\* the texts handed to logger.error
LoggedTexts ==
  UNION { TextsOf(e, {"msg", "body"})
          \cup (IF Has(e, "error") THEN { e["error"]["message"] } ELSE {})
          : e \in logged }

DisplayedUrl ==
  IF route = "/status"
  THEN res["body"]["config"]["brokerClientValidationUrl"]
  ELSE Get(res["body"], "brokerClientValidationUrl", UndefinedText)

\* C10: what /systemcheck returns and /status renders has the target URL in its
\* sanitized form only and has neither the configured authorization header nor
\* the basic-auth credentials; nor has what is handed to the logger.
C10_NoSecretInOutput ==
  Probed =>
     /\ DisplayedUrl = sanitise(ConfiguredUrl)
     /\ \A t \in ReturnedTexts \cup LoggedTexts :
           \A secret \in Secrets : ~Contains(t, secret)

C10_Witness ==
  /\ GotError
  /\ route = "/systemcheck"
  /\ Contains(ConfiguredUrl, <<UrlSecret>>)
  /\ Has(config, AuthHeaderKey)
  /\ Contains(res["body"]["error"], <<"${TOKEN}">>)
  /\ logged # {}
====
